---- MODULE Spec2Model ----
(***************************************************************************)
(* Verification model of the report viewer (src/App.tsx,                   *)
(* src/services/aiService.ts).                                             *)
(*                                                                         *)
(* The components are modelled against their environment (user events,    *)
(* timers, completions of asynchronous calls):                             *)
(*   - FileTreeItem / getRepoContents : the lazy file tree   (SpecTree,    *)
(*     SpecTreeSeq);                                                       *)
(*   - MermaidRenderer                : the diagram pipeline (SpecDiagram, *)
(*     SpecTheme);                                                         *)
(*   - AnalysisView                   : scroll spy, contents, lightbox     *)
(*     (SpecView, SpecZoom);                                               *)
(*   - repairMarkdownContent, the table of contents, slugify, CodeBlock    *)
(*     (SpecRepair, SpecToc, SpecSlug, SpecCode);                          *)
(*   - App                            : search, trending list, selection,  *)
(*     generation (SpecApp).                                               *)
(* React state of a component instance lives in the functions below; an    *)
(* instance that React unmounts loses its state, and a continuation that   *)
(* was suspended in it can no longer write to a live instance.            *)
(***************************************************************************)
EXTENDS Integers, Sequences, FiniteSets, TLC

\* ------------------------------------------------------------------------
\* Bounds of the model
\* ------------------------------------------------------------------------
\* listing requests (getRepoContents calls of tree items) issued in one run
MaxFetches == 4
\* file-content requests that may be pending at the same time
MaxFileFetches == 1
\* superseded runs of the render effect, over all diagram slots, that are
\* still suspended (timer or compile pending) at the same time
MaxSuperseded == 1

\* object URLs made by zoom requests
MaxZooms == 2

\* lines of a model answer
MaxLines == 3

\* calls of handleRepoSelect in one run
MaxAttempts == 2

\* searches in flight at the same time
MaxSearches == 1

\* characters of a heading text given to slugify
MaxSlugLen == 4

\* getTrendingRepos calls in flight at the same time
MaxTrendingFetches == 2

\* ------------------------------------------------------------------------
\* The remote repository (what the hosting API answers)
\* ------------------------------------------------------------------------
Root == "/"

Nodes == {"z.md", "src", "src/b.md", "src/a.md", "src/lib", "src/lib/c"}

Dirs == {"src", "src/lib"}

NodeType == [n \in Nodes |-> IF n \in Dirs THEN "dir" ELSE "file"]

Parent == ("z.md" :> Root) @@ ("src" :> Root) @@ ("src/lib" :> "src")
          @@ ("src/lib/c" :> "src/lib") @@ ("src/b.md" :> "src")
          @@ ("src/a.md" :> "src")

\* order of the names under localeCompare
NameRank == ("src/a.md" :> 0) @@ ("src/b.md" :> 1) @@ ("src/lib/c" :> 2)
            @@ ("src/lib" :> 3) @@ ("src" :> 4) @@ ("z.md" :> 5)

\* item.download_url of the API; null for all files but "z.md"
HasDownloadUrl == [n \in Nodes |-> n = "z.md"]

\* the entries of a path, in one of the orders the API returns them
ApiListing == (Root :> <<"z.md", "src">>)
              @@ ("src" :> <<"src/b.md", "src/lib", "src/a.md">>)
              @@ ("src/lib" :> <<"src/lib/c">>)

NoFile == "null"

Placeholder == "// placeholder"

ApiLimitText == "api-limit"

FileText(n) == "text of " \o n

\* ------------------------------------------------------------------------
\* State
\* ------------------------------------------------------------------------
VARIABLES
  \* App: status, selectedRepo, analysis, theme
  loadingStatus, selectedRepo, analysis, theme,
  \* the calls of handleRepoSelect so far, and the searches in flight
  attempts, searching,
  \* App, home view: search results, error message, trending list, the
  \* period filter, the getTrendingRepos calls in flight
  repos, searchError, trendingRepos, period, trendingReqs,
  \* AnalysisView
  rootFiles, isTreeLoading, rootPending,
  selectedFile, fileContent, isFileLoading, fileReqs,
  \* FileTreeItem, one instance per node
  isOpen, children, isLoading,
  \* pending getRepoContents calls of tree items, and their history
  listingReqs, issued, instIssued, instEmpty, everCached,
  \* MermaidRenderer, one instance per slot
  mounted, content, status, svg, effects,
  \* generateRepoAnalysis: the model's answer, and the analysis made of it
  rawText, analysisContent, docPc,
  \* AnalysisView: the memoised table of contents, the ids of the heading
  \* anchors in the page, the active header, the scroll geometry
  tableOfContents, headingAnchors, activeHeader, scrollGap, headingTops,
  \* AnalysisView: the zoomed image, and the object URLs not yet revoked
  zoomedImage, liveUrls,
  \* CodeBlock: the props of one code element, and what it rendered as
  codeBlock, rendered,
  \* history: the entry of the table of contents clicked last, and the active
  \* header that click left
  lastClick

homeVars == <<repos, searchError, trendingRepos, period, trendingReqs>>

appVars == <<loadingStatus, selectedRepo, analysis, theme, attempts, searching,
             homeVars>>

treeVars == <<rootFiles, isTreeLoading, rootPending, selectedFile,
              fileContent, isFileLoading, fileReqs, isOpen, children,
              isLoading, listingReqs, issued, instIssued, instEmpty,
              everCached>>

diagramVars == <<mounted, content, status, svg, effects>>

docVars == <<rawText, analysisContent, docPc, tableOfContents, headingAnchors>>

scrollVars == <<scrollGap, headingTops>>

zoomVars == <<zoomedImage, liveUrls>>

codeVars == <<codeBlock, rendered>>

\* what neither the file tree nor a diagram slot writes
pageVars == <<docVars, scrollVars, zoomVars, codeVars, lastClick>>

vars == <<appVars, treeVars, diagramVars, activeHeader, pageVars>>

\* ------------------------------------------------------------------------
\* Text: a string is a sequence of characters
\* ------------------------------------------------------------------------
LowerCase == <<"a", "b", "c", "d", "e", "f", "g", "h", "i", "j", "k", "l", "m",
               "n", "o", "p", "q", "r", "s", "t", "u", "v", "w", "x", "y", "z">>

UpperCase == <<"A", "B", "C", "D", "E", "F", "G", "H", "I", "J", "K", "L", "M",
               "N", "O", "P", "Q", "R", "S", "T", "U", "V", "W", "X", "Y", "Z">>

\* the backtick character
Tick == "U+0060"

DigitChars == <<"0", "1", "2", "3", "4", "5", "6", "7", "8", "9">>

Range(s) == {s[i] : i \in 1..Len(s)}

\* \s
Space == {" ", "\n", "\t"}

\* \w
WordChar == Range(LowerCase) \cup Range(UpperCase) \cup Range(DigitChars) \cup {"_"}

\* \u4e00-\u9fa5, two characters of the range
Cjk == {"U+4E2D", "U+6587"}

Min(S) == CHOOSE x \in S : \A y \in S : x <= y

Max(S) == CHOOSE x \in S : \A y \in S : x >= y

\* the subsequence of s at the indices in K
RECURSIVE Pick(_, _)
Pick(s, K) ==
  IF s = <<>> THEN <<>>
  ELSE LET n == Len(s)
           r == Pick(SubSeq(s, 1, n - 1), K)
       IN  IF n \in K THEN Append(r, s[n]) ELSE r

toLowerCase(s) ==
  [i \in 1..Len(s) |->
     IF \E k \in 1..Len(UpperCase) : UpperCase[k] = s[i]
     THEN LowerCase[CHOOSE k \in 1..Len(UpperCase) : UpperCase[k] = s[i]]
     ELSE s[i]]

trim(s) ==
  LET ink == {i \in 1..Len(s) : s[i] \notin Space}
  IN  IF ink = {} THEN <<>> ELSE SubSeq(s, Min(ink), Max(ink))

\* p occurs in s at index i
At(s, i, p) == i >= 1 /\ i + Len(p) - 1 <= Len(s) /\ SubSeq(s, i, i + Len(p) - 1) = p

startsWith(s, p) == At(s, 1, p)

endsWith(s, p) == At(s, Len(s) - Len(p) + 1, p)

includes(s, p) == \E i \in 1..(Len(s) + 1) : At(s, i, p)

\* s.split('\n')
RECURSIVE split(_)
split(s) ==
  LET nls == {i \in 1..Len(s) : s[i] = "\n"}
  IN  IF nls = {} THEN <<s>>
      ELSE <<SubSeq(s, 1, Min(nls) - 1)>> \o split(SubSeq(s, Min(nls) + 1, Len(s)))

\* lines.join('\n')
RECURSIVE join(_)
join(lines) ==
  IF lines = <<>> THEN <<>>
  ELSE IF Len(lines) = 1 THEN lines[1]
  ELSE lines[1] \o <<"\n">> \o join(Tail(lines))

\* n in decimal, as template literals print it
RECURSIVE Decimal(_)
Decimal(n) ==
  IF n < 10 THEN <<DigitChars[n + 1]>>
  ELSE Decimal(n \div 10) \o <<DigitChars[(n % 10) + 1]>>

\* ------------------------------------------------------------------------
\* Heading slugs and the table of contents
\* ------------------------------------------------------------------------
\* React children: a sequence of nodes, a node is a text or an element
TextNode(t) == [kind |-> "text", text |-> t, children |-> <<>>]

ElementNode(cs) == [kind |-> "element", text |-> <<>>, children |-> cs]

RECURSIVE extractText(_)
extractText(nodes) ==
  IF nodes = <<>> THEN <<>>
  ELSE LET h == Head(nodes)
       IN  (IF h.kind = "text" THEN h.text ELSE extractText(h.children))
             \o extractText(Tail(nodes))

\* .replace(/\s+/g, '-')
SpacesToHyphen(s) ==
  LET kept == {i \in 1..Len(s) : ~(s[i] \in Space /\ i > 1 /\ s[i - 1] \in Space)}
      t == [i \in 1..Len(s) |-> IF s[i] \in Space THEN "-" ELSE s[i]]
  IN  Pick(t, kept)

\* .replace(/[^\w\u4e00-\u9fa5-]/g, '')
IsSlugChar(c) == c \in WordChar \cup Cjk \cup {"-"}

\* runs of hyphens are left as they are
CollapseHyphensNever(s) == s

\* .replace(/\-\-+/g, '-')
CollapseHyphens(s) ==
  Pick(s, {i \in 1..Len(s) : ~(s[i] = "-" /\ i > 1 /\ s[i - 1] = "-")})

\* .replace(/^-+/, '').replace(/-+$/, '')
StripHyphens(s) ==
  LET ink == {i \in 1..Len(s) : s[i] # "-"}
  IN  IF ink = {} THEN <<>> ELSE SubSeq(s, Min(ink), Max(ink))

slugify(text) ==
  StripHyphens(CollapseHyphens(SelectSeq(SpacesToHyphen(trim(toLowerCase(text))),
                                         IsSlugChar)))

\* line.trim().startsWith('<fence>')
IsFenceLine(line) == startsWith(trim(line), <<Tick, Tick, Tick>>)

\* the number of leading # of a line
Hashes(line) ==
  Min({i \in 1..Len(line) : line[i] # "#"} \cup {Len(line) + 1}) - 1

\* the match without the upper limit of three #
IsHeadingLineAnyDepth(line) ==
  LET h == Hashes(line)
  IN  /\ h >= 1
      /\ Len(line) >= h + 2
      /\ line[h + 1] \in Space

\* line.match(/^(#{1,3})\s+(.+)$/)
IsHeadingLine(line) ==
  LET h == Hashes(line)
  IN  /\ h \in 1..3
      /\ Len(line) >= h + 2
      /\ line[h + 1] \in Space

HeadingLevel(line) == Hashes(line)

\* match[2].trim()
HeadingText(line) == trim(SubSeq(line, Hashes(line) + 1, Len(line)))

\* text.replace: every **, __, backtick, [ and ] is removed
RECURSIVE CleanText(_)
CleanText(s) ==
  IF s = <<>> THEN <<>>
  ELSE IF startsWith(s, <<"*", "*">>) \/ startsWith(s, <<"_", "_">>)
       THEN CleanText(SubSeq(s, 3, Len(s)))
  ELSE IF s[1] \in {Tick, "[", "]"} THEN CleanText(Tail(s))
  ELSE <<s[1]>> \o CleanText(Tail(s))

RECURSIVE UniqueId(_, _, _, _)
\* the slug as it is, taken or not
UniqueIdKeep(originalId, counter, id, idSet) == id

\* while (idSet.has(id)): the first of id, id-1, id-2, ... not yet taken
UniqueId(originalId, counter, id, idSet) ==
  IF id \notin idSet THEN id
  ELSE UniqueId(originalId, counter + 1,
                originalId \o <<"-">> \o Decimal(counter), idSet)

\* inCodeBlock = !inCodeBlock
ToggleFenceNever(inCodeBlock) == inCodeBlock

ToggleFence(inCodeBlock) == ~inCodeBlock

\* the body of lines.forEach, from line i on
RECURSIVE TocLoop(_, _, _, _, _)
TocLoop(lines, i, inCodeBlock, idSet, toc) ==
  IF i > Len(lines) THEN toc
  ELSE LET line == lines[i]
       IN  IF IsFenceLine(line)
           THEN TocLoop(lines, i + 1, ToggleFence(inCodeBlock), idSet, toc)
           ELSE IF inCodeBlock \/ ~IsHeadingLine(line)
           THEN TocLoop(lines, i + 1, inCodeBlock, idSet, toc)
           ELSE LET cleanText == CleanText(HeadingText(line))
                    id == UniqueId(slugify(cleanText), 1, slugify(cleanText), idSet)
                IN  TocLoop(lines, i + 1, inCodeBlock, idSet \cup {id},
                            Append(toc, [id |-> id, text |-> cleanText,
                                         level |-> HeadingLevel(line)]))

\* the useMemo of tableOfContents
extractToc(text) == TocLoop(split(text), 1, FALSE, {}, <<>>)

\* the inline content of a heading as the markdown renderer hands it to the
\* heading component: text, with code spans as elements
RECURSIVE InlineChildren(_)
InlineChildren(s) ==
  LET ticks == {i \in 1..Len(s) : s[i] = Tick}
  IN  IF s = <<>> THEN <<>>
      ELSE IF Cardinality(ticks) < 2 THEN <<TextNode(s)>>
      ELSE LET a == Min(ticks)
               b == Min(ticks \ {a})
           IN  (IF a > 1 THEN <<TextNode(SubSeq(s, 1, a - 1))>> ELSE <<>>)
                 \o <<ElementNode(<<TextNode(SubSeq(s, a + 1, b - 1))>>)>>
                 \o InlineChildren(SubSeq(s, b + 1, Len(s)))

\* the h1, h2, h3 components: the id of one rendered heading
HeadingId(nodes) == slugify(extractText(nodes))

\* the ids of the heading anchors of the rendered document, in order: the
\* renderer makes a heading of each heading line outside a fenced block
RECURSIVE AnchorLoop(_, _, _)
AnchorLoop(lines, i, inCodeBlock) ==
  IF i > Len(lines) THEN <<>>
  ELSE LET line == lines[i]
       IN  IF IsFenceLine(line) THEN AnchorLoop(lines, i + 1, ~inCodeBlock)
           ELSE IF inCodeBlock \/ ~IsHeadingLine(line)
           THEN AnchorLoop(lines, i + 1, inCodeBlock)
           ELSE <<HeadingId(InlineChildren(HeadingText(line)))>>
                  \o AnchorLoop(lines, i + 1, inCodeBlock)

RenderedAnchors(text) == AnchorLoop(split(text), 1, FALSE)

\* ------------------------------------------------------------------------
\* repairMarkdownContent; <fence> stands for three backticks
\* ------------------------------------------------------------------------
Fence == <<Tick, Tick, Tick>>

FenceMarkdown == <<Tick, Tick, Tick, "m", "a", "r", "k", "d", "o", "w", "n">>

FenceMermaid == <<Tick, Tick, Tick, "m", "e", "r", "m", "a", "i", "d">>

MermaidWord == <<"m", "e", "r", "m", "a", "i", "d">>

\* sequenceDiagram|graph |classDiagram|stateDiagram|erDiagram|pie|gantt
Keywords == <<<<"s", "e", "q", "u", "e", "n", "c", "e", "D", "i", "a", "g", "r", "a", "m">>,
              <<"g", "r", "a", "p", "h", " ">>,
              <<"c", "l", "a", "s", "s", "D", "i", "a", "g", "r", "a", "m">>,
              <<"s", "t", "a", "t", "e", "D", "i", "a", "g", "r", "a", "m">>,
              <<"e", "r", "D", "i", "a", "g", "r", "a", "m">>,
              <<"p", "i", "e">>,
              <<"g", "a", "n", "t", "t">>>>

\* the length of the longest prefix of s made of characters of C
Run(s, C) == Min({i \in 1..Len(s) : s[i] \notin C} \cup {Len(s) + 1}) - 1

Drop(s, n) == SubSeq(s, n + 1, Len(s))

\* s without trailing whitespace
trimEnd(s) ==
  LET ink == {i \in 1..Len(s) : s[i] \notin Space}
  IN  IF ink = {} THEN <<>> ELSE SubSeq(s, 1, Max(ink))

\* the first keyword that s begins with, if any
KeywordAt(s) == {k \in 1..Len(Keywords) : startsWith(s, Keywords[k])}

\* rule 1, first replace: <fence>markdown at the start of the string and the
\* whitespace after it
StripMarkdownOpen(s) ==
  IF startsWith(s, FenceMarkdown)
  THEN LET t == Drop(s, Len(FenceMarkdown)) IN Drop(t, Run(t, Space))
  ELSE s

\* rule 1, second replace: <fence> at the end of the string and the
\* whitespace before it
StripFenceClose(s) ==
  IF endsWith(s, Fence) THEN trimEnd(SubSeq(s, 1, Len(s) - Len(Fence))) ELSE s

\* rule 1
RemoveMarkdownWrapper(s) ==
  IF startsWith(trim(s), FenceMarkdown)
  THEN StripFenceClose(StripMarkdownOpen(s))
  ELSE s

\* rule 2, the match of the whole string against: <fence>, word characters,
\* whitespace (one or more), a body (lazy), whitespace, <fence>; the set of
\* the body, empty when there is no match
WrapperBody(s) ==
  IF ~startsWith(s, Fence) THEN {}
  ELSE LET t == Drop(s, Len(Fence))
           u == Drop(t, Run(t, WordChar))
           r == Drop(u, Run(u, Space))
       IN  IF Run(u, Space) >= 1 /\ endsWith(r, Fence)
           THEN {trimEnd(SubSeq(r, 1, Len(r) - Len(Fence)))}
           ELSE {}

\* rule 2
RemoveGenericWrapper(s) ==
  IF startsWith(trim(s), Fence) /\ ~includes(s, <<"\n", "#">>)
  THEN LET m == WrapperBody(s)
       IN  IF m # {} /\ includes(CHOOSE b \in m : TRUE, <<"#", " ">>)
           THEN CHOOSE b \in m : TRUE
           ELSE s
  ELSE s

\* what the pattern of rule 3 matches at the start of s: <fence>, word
\* characters, a newline, whitespace, a keyword; the length of the match and
\* the keyword, empty when there is no match
TagMatch(s) ==
  IF ~startsWith(s, Fence) THEN {}
  ELSE LET t == Drop(s, Len(Fence))
           w == Run(t, WordChar)
           u == Drop(t, w)
       IN  IF u # <<>> /\ u[1] = "\n"
           THEN LET v == Drop(u, 1)
                    sp == Run(v, Space)
                IN  {[len |-> Len(Fence) + w + 1 + sp + Len(Keywords[k]),
                      keyword |-> Keywords[k]] : k \in KeywordAt(Drop(v, sp))}
           ELSE {}

\* rule 3: every match is replaced by <fence>mermaid, a newline, the keyword
RECURSIVE ForceMermaidTag(_)
ForceMermaidTag(s) ==
  IF s = <<>> THEN <<>>
  ELSE LET m == TagMatch(s)
       IN  IF m # {}
           THEN LET x == CHOOSE y \in m : TRUE
                IN  FenceMermaid \o <<"\n">> \o x.keyword
                      \o ForceMermaidTag(Drop(s, x.len))
           ELSE <<s[1]>> \o ForceMermaidTag(Tail(s))

\* what the pattern of rule 4 matches at the start of s: a newline or the
\* start of the string (group 1), mermaid, whitespace, a newline; atStart
\* says that s begins the whole string
WordLineMatch(s, atStart) ==
  LET p == IF s # <<>> /\ s[1] = "\n" THEN 1 ELSE 0
      t == Drop(s, p + Len(MermaidWord))
      nls == {n \in 1..Run(t, Space) : t[n] = "\n"}
  IN  IF (p = 1 \/ atStart) /\ At(s, p + 1, MermaidWord) /\ nls # {}
      THEN {[len |-> p + Len(MermaidWord) + Max(nls), group |-> SubSeq(s, 1, p)]}
      ELSE {}

\* rule 4: every match is replaced by its group 1
RECURSIVE RemoveWordLines(_, _)
RemoveWordLines(s, atStart) ==
  IF s = <<>> THEN <<>>
  ELSE LET m == WordLineMatch(s, atStart)
       IN  IF m # {}
           THEN LET x == CHOOSE y \in m : TRUE
                IN  x.group \o RemoveWordLines(Drop(s, x.len), FALSE)
           ELSE <<s[1]>> \o RemoveWordLines(Tail(s), FALSE)

repairMarkdownContent(text) ==
  IF text = <<>> THEN <<>>
  ELSE RemoveWordLines(
         ForceMermaidTag(RemoveGenericWrapper(RemoveMarkdownWrapper(text))),
         TRUE)

\* ------------------------------------------------------------------------
\* CodeBlock
\* ------------------------------------------------------------------------
\* a prop that was not passed
Undefined == <<"undefined">>

LanguagePrefix == <<"l", "a", "n", "g", "u", "a", "g", "e", "-">>

\* content.length < 80
ShortLimit == 80

\* .replace(/\n$/, '')
StripFinalNewline(s) ==
  IF s # <<>> /\ s[Len(s)] = "\n" THEN SubSeq(s, 1, Len(s) - 1) ELSE s

\* /language-(\w+)/.exec(className || ''): the set of its group 1, empty when
\* there is no match
LanguageOf(className) ==
  LET cn == IF className = Undefined THEN <<>> ELSE className
      at == {i \in 1..Len(cn) :
               /\ At(cn, i, LanguagePrefix)
               /\ Run(Drop(cn, i + Len(LanguagePrefix) - 1), WordChar) >= 1}
  IN  IF at = {} THEN {}
      ELSE LET t == Drop(cn, Min(at) + Len(LanguagePrefix) - 1)
           IN  {SubSeq(t, 1, Run(t, WordChar))}

looksLikeMermaid(body) ==
  \E k \in 1..Len(Keywords) : startsWith(trim(body), Keywords[k])

isMermaid(className, body) ==
  \/ LanguageOf(className) = {MermaidWord}
  \/ className = Undefined /\ looksLikeMermaid(body)

\* the test without its length limit
isShortSingleLineAnyLength(inline, body) ==
  ~inline /\ ~includes(body, <<"\n">>)

isShortSingleLine(inline, body) ==
  ~inline /\ ~includes(body, <<"\n">>) /\ Len(body) < ShortLimit

\* the test of the inline branch
RendersInlineShort(inline, short, mermaid) == inline \/ short

RendersInline(inline, short, mermaid) == inline \/ (short /\ ~mermaid)

\* what a code element renders as
CodeBlock(props) ==
  LET text == IF props.children = <<>> THEN <<>>
              ELSE StripFinalNewline(props.children)
      mermaid == isMermaid(props.className, text)
      match == LanguageOf(props.className)
  IN  IF RendersInline(props.inline, isShortSingleLine(props.inline, text), mermaid)
      THEN [kind |-> "inline", content |-> props.children, lang |-> <<>>]
      ELSE IF mermaid
      THEN [kind |-> "diagram", content |-> trim(text), lang |-> <<>>]
      ELSE [kind |-> "code", content |-> text,
            lang |-> IF match # {} THEN CHOOSE l \in match : TRUE
                     ELSE <<"t", "e", "x", "t">>]

\* ------------------------------------------------------------------------
\* Scroll spy
\* ------------------------------------------------------------------------
\* Math.abs(scrollHeight - scrollTop - clientHeight) < 50
BottomTolerance == 50

\* top < 150
ActivationLine == 150

\* values of Math.abs(scrollHeight - scrollTop - clientHeight)
Gaps == {0, 49, 50, 300}

\* values of getBoundingClientRect().top
TopValues == {0 - 200, 149, 150, 600}

\* the tops of n headings that follow each other down the page
TopsFor(n) == {t \in [1..n -> TopValues] : \A i \in 1..(n - 1) : t[i] < t[i + 1]}

\* the bottom test never passes
isBottomNever(gap) == FALSE

isBottom(gap) == gap < BottomTolerance

\* handleScroll: the active header it leaves, given the one it found
ScrollSpy(active, toc, anchors, gap, tops) ==
  IF isBottom(gap) /\ Len(toc) > 0 THEN toc[Len(toc)].id
  ELSE LET crossed == {i \in 1..Len(anchors) : tops[i] < ActivationLine}
           current == IF crossed = {} THEN <<>> ELSE anchors[Max(crossed)]
       IN  IF current # <<>> THEN current ELSE active

\* the ids of the heading elements in the page: the document is rendered
\* only while no file is selected
DomAnchors == IF selectedFile = NoFile THEN headingAnchors ELSE <<>>

\* the effect attaches the scroll listener whatever the mode
ListenerAttachedAlways == TRUE

\* the scroll listener of the content area is attached: the effect returns
\* before addEventListener while a file is selected
ListenerAttached == selectedFile = NoFile

\* ------------------------------------------------------------------------
\* getRepoContents
\* ------------------------------------------------------------------------
InSeq(x, s) == \E i \in 1..Len(s) : s[i] = x

\* comparator of the sort: directories first, then by name
Less(a, b) ==
  IF NodeType[a] = NodeType[b] THEN NameRank[a] < NameRank[b]
  ELSE NodeType[a] = "dir"

RECURSIVE Insert(_, _)
Insert(x, s) ==
  IF s = <<>> THEN <<x>>
  ELSE IF Less(x, Head(s)) THEN <<x>> \o s
  ELSE <<Head(s)>> \o Insert(x, Tail(s))

RECURSIVE SortNodes(_)
\* the listing in the order the API returned it
SortNodesKeep(s) == s

SortNodes(s) == IF s = <<>> THEN <<>> ELSE Insert(Head(s), SortNodes(Tail(s)))

\* the value the promise resolves to: the sorted listing, or [] when the
\* request fails (non-OK response, network error, non-array body)
Fetched(listing, ok) == IF ok THEN SortNodes(listing) ELSE <<>>

getRepoContents(path, ok) == Fetched(ApiListing[path], ok)

\* the orders in which the API may return the entries of a path
ApiOrders(path) ==
  LET s == ApiListing[path]
      n == Len(s)
  IN  {[i \in 1..n |-> s[f[i]]] :
         f \in {g \in [1..n -> 1..n] : \A i, j \in 1..n : i # j => g[i] # g[j]}}

\* ------------------------------------------------------------------------
\* FileTreeItem
\* ------------------------------------------------------------------------
\* is node n rendered, given the tree state (rf, tl, op, ch, ld)
RECURSIVE MountedIn(_, _, _, _, _, _)
MountedIn(n, rf, tl, op, ch, ld) ==
  IF Parent[n] = Root THEN ~tl /\ InSeq(n, rf)
  ELSE /\ op[Parent[n]]
       /\ ~ld[Parent[n]]
       /\ InSeq(n, ch[Parent[n]])
       /\ MountedIn(Parent[n], rf, tl, op, ch, ld)

Mounted(n) == MountedIn(n, rootFiles, isTreeLoading, isOpen, children, isLoading)

\* the condition under which an expand starts a listing fetch
NeedsFetchAlways(n) == ~isOpen[n]

NeedsFetch(n) == ~isOpen[n] /\ Len(children[n]) = 0

PendingOn(n) == {r \in listingReqs : r.path = n}

TotalIssued == issued["src"] + issued["src/lib"]

\* commit of a new tree state: instances that are no longer rendered are
\* destroyed (fresh useState values on the next mount) and the
\* continuations suspended in them lose their instance
Commit(rf, tl, op, ch, ld, reqs, ii, ie) ==
  LET live(n) == MountedIn(n, rf, tl, op, ch, ld) IN
  /\ rootFiles' = rf
  /\ isTreeLoading' = tl
  /\ isOpen' = [n \in Nodes |-> live(n) /\ op[n]]
  /\ children' = [n \in Nodes |-> IF live(n) THEN ch[n] ELSE <<>>]
  /\ isLoading' = [n \in Nodes |-> live(n) /\ ld[n]]
  /\ listingReqs' = {[r EXCEPT !.live = r.live /\ live(r.path)] : r \in reqs}
  /\ instIssued' = [n \in Dirs |-> IF live(n) THEN ii[n] ELSE 0]
  /\ instEmpty' = [n \in Dirs |-> live(n) /\ ie[n]]

FreeFileId ==
  CHOOSE i \in 1..MaxFileFetches :
    /\ \A r \in fileReqs : r.id # i
    /\ \A j \in 1..(i - 1) : \E r \in fileReqs : r.id = j

\* handleSelectFile, up to its await
handleSelectFile(n) ==
  /\ selectedFile' = n
  /\ IF HasDownloadUrl[n]
     THEN /\ Cardinality(fileReqs) < MaxFileFetches
          /\ isFileLoading' = TRUE
          /\ fileReqs' = fileReqs \cup {[id |-> FreeFileId, node |-> n]}
          /\ UNCHANGED fileContent
     ELSE /\ fileContent' = ApiLimitText
          /\ isFileLoading' = FALSE
          /\ UNCHANGED fileReqs

\* handleToggle of a directory, first branch: start the listing fetch
ToggleFetch(n) ==
  /\ n \in Dirs
  /\ Mounted(n)
  /\ NeedsFetch(n)
  /\ TotalIssued < MaxFetches
  /\ issued' = [issued EXCEPT ![n] = @ + 1]
  /\ Commit(rootFiles, isTreeLoading, isOpen, children,
            [isLoading EXCEPT ![n] = TRUE],
            listingReqs \cup {[id |-> TotalIssued + 1, path |-> n, live |-> TRUE]},
            [instIssued EXCEPT ![n] = @ + 1], instEmpty)
  /\ UNCHANGED <<rootPending, selectedFile, fileContent, isFileLoading,
                 fileReqs, everCached>>
  /\ UNCHANGED <<appVars, diagramVars, activeHeader, pageVars>>

\* handleToggle of a directory, no fetch: setIsOpen(!isOpen)
ToggleOpen(n) ==
  /\ n \in Dirs
  /\ Mounted(n)
  /\ ~NeedsFetch(n)
  /\ Commit(rootFiles, isTreeLoading, [isOpen EXCEPT ![n] = ~isOpen[n]],
            children, isLoading, listingReqs, instIssued, instEmpty)
  /\ UNCHANGED <<rootPending, selectedFile, fileContent, isFileLoading,
                 fileReqs, issued, everCached>>
  /\ UNCHANGED <<appVars, diagramVars, activeHeader, pageVars>>

\* handleToggle of a file: onSelectFile(node)
ToggleFile(n) ==
  /\ n \in Nodes \ Dirs
  /\ Mounted(n)
  /\ handleSelectFile(n)
  /\ UNCHANGED <<rootFiles, isTreeLoading, rootPending, isOpen, children,
                 isLoading, listingReqs, issued, instIssued, instEmpty,
                 everCached>>
  /\ UNCHANGED <<appVars, diagramVars, activeHeader, pageVars>>

handleToggle(n) == ToggleFetch(n) \/ ToggleOpen(n) \/ ToggleFile(n)

\* handleToggle resumes after its await: setChildren(data),
\* setIsLoading(false), setIsOpen(!isOpen) with the isOpen (false) captured
\* when the handler started
ListingDone(r, ok) ==
  /\ r \in listingReqs
  /\ \E listing \in ApiOrders(r.path) :
     LET n == r.path
         data == Fetched(listing, ok)
     IN IF r.live
        THEN /\ Commit(rootFiles, isTreeLoading,
                       [isOpen EXCEPT ![n] = TRUE],
                       [children EXCEPT ![n] = data],
                       [isLoading EXCEPT ![n] = FALSE],
                       listingReqs \ {r}, instIssued,
                       [instEmpty EXCEPT ![n] = @ \/ data = <<>>])
             /\ everCached' = [everCached EXCEPT ![n] = @ \/ data # <<>>]
        ELSE /\ listingReqs' = listingReqs \ {r}
             /\ UNCHANGED <<rootFiles, isTreeLoading, isOpen, children,
                            isLoading, instIssued, instEmpty, everCached>>
  /\ UNCHANGED <<rootPending, selectedFile, fileContent, isFileLoading,
                 fileReqs, issued>>
  /\ UNCHANGED <<appVars, diagramVars, activeHeader, pageVars>>

\* AnalysisView.fetchRoot resumes: setRootFiles(data), setIsTreeLoading(false)
RootDone(ok) ==
  /\ rootPending
  /\ rootPending' = FALSE
  /\ \E listing \in ApiOrders(Root) :
       Commit(Fetched(listing, ok), FALSE, isOpen, children, isLoading,
              listingReqs, instIssued, instEmpty)
  /\ UNCHANGED <<selectedFile, fileContent, isFileLoading, fileReqs, issued,
                 everCached>>
  /\ UNCHANGED <<appVars, diagramVars, activeHeader, pageVars>>

\* handleSelectFile resumes: setFileContent(content), setIsFileLoading(false);
\* getFileContent resolves to the text or to the placeholder
FileDone(r, ok) ==
  /\ r \in fileReqs
  /\ fileReqs' = fileReqs \ {r}
  /\ fileContent' = IF ok THEN FileText(r.node) ELSE Placeholder
  /\ isFileLoading' = FALSE
  /\ UNCHANGED <<rootFiles, isTreeLoading, rootPending, selectedFile, isOpen,
                 children, isLoading, listingReqs, issued, instIssued,
                 instEmpty, everCached>>
  /\ UNCHANGED <<appVars, diagramVars, activeHeader, pageVars>>

\* closeFileView, and the scroll-spy effect that runs once when the page is
\* back in document mode
closeFileView(gap, tops) ==
  /\ selectedFile # NoFile
  /\ tops \in TopsFor(Len(headingAnchors))
  /\ selectedFile' = NoFile
  /\ fileContent' = ""
  /\ scrollGap' = gap
  /\ headingTops' = tops
  /\ activeHeader' = ScrollSpy(activeHeader, tableOfContents, headingAnchors,
                               gap, tops)
  /\ UNCHANGED <<rootFiles, isTreeLoading, rootPending, isFileLoading,
                 fileReqs, isOpen, children, isLoading, listingReqs, issued,
                 instIssued, instEmpty, everCached>>
  /\ UNCHANGED <<appVars, diagramVars, docVars, zoomVars, codeVars,
                 lastClick>>

\* ------------------------------------------------------------------------
\* MermaidRenderer
\* ------------------------------------------------------------------------
Diagrams == {1, 2}

\* content strings CodeBlock can pass (content.trim()); "" is the content of
\* an empty block tagged mermaid
Contents == {"", "graph TD", "pie"}

NoSvg == ""

\* the artifact mermaid.render produces for a source text
SvgOf(c) == <<"svg", c>>

\* one run of the effect: the content it closed over, its isMounted flag,
\* the position of renderChart ("if (!content) return" ends it at once),
\* how the compile ended, and the isDark its compile read (FALSE before)
Effect(c) ==
  [content |-> c, isMounted |-> TRUE,
   pc |-> IF c = "" THEN "done" ELSE "timer",
   outcome |-> "none", isDark |-> FALSE]

\* the cleanup function returned by the effect: isMounted = false
CleanupNone(es) == es

Cleanup(es) ==
  IF es = <<>> THEN es ELSE [es EXCEPT ![Len(es)].isMounted = FALSE]

\* the runs whose renderChart is still suspended
Suspended(es) == SelectSeq(es, LAMBDA e : e.pc # "done")

\* renderChart of run i returns; only the last run of a slot is remembered
\* once it has returned
Return(es, i, how) ==
  IF i = Len(es) THEN [es EXCEPT ![i].pc = "done", ![i].outcome = how]
  ELSE SubSeq(es, 1, i - 1) \o SubSeq(es, i + 1, Len(es))

\* the last run of slot d
Current(d) == effects[d][Len(effects[d])]

\* the suspended runs of slot d other than its last one
Superseded(d) == Suspended(SubSeq(effects[d], 1, Len(effects[d]) - 1))

RECURSIVE CountSuperseded(_)
CountSuperseded(S) ==
  IF S = {} THEN 0
  ELSE LET d == CHOOSE x \in S : TRUE
       IN Len(Superseded(d)) + CountSuperseded(S \ {d})

\* may the effect of slot d start another run (its last run becomes a
\* superseded one if it is still suspended)
MayRestart(d) ==
  CountSuperseded(Diagrams) + (IF Current(d).pc # "done" THEN 1 ELSE 0)
    <= MaxSuperseded

\* the test "if (isMounted)" that guards every write after an await
StillMountedAlways(e) == TRUE

StillMounted(e) == e.isMounted

\* React mounts an instance: useState initial values, then the effect runs
\* setStatus('loading') and renderChart()
Mount(d, c) ==
  /\ ~mounted[d]
  /\ MayRestart(d)
  /\ mounted' = [mounted EXCEPT ![d] = TRUE]
  /\ content' = [content EXCEPT ![d] = c]
  /\ status' = [status EXCEPT ![d] = "loading"]
  /\ svg' = [svg EXCEPT ![d] = NoSvg]
  /\ effects' = [effects EXCEPT ![d] = Append(Suspended(@), Effect(c))]
  /\ UNCHANGED <<appVars, treeVars, activeHeader, pageVars>>

\* the content prop changes: cleanup of the previous run, then the effect
\* runs again
ContentChange(d, c) ==
  /\ mounted[d]
  /\ c # content[d]
  /\ MayRestart(d)
  /\ content' = [content EXCEPT ![d] = c]
  /\ status' = [status EXCEPT ![d] = "loading"]
  /\ effects' = [effects EXCEPT ![d] = Append(Suspended(Cleanup(@)), Effect(c))]
  /\ UNCHANGED <<mounted, svg, appVars, treeVars, activeHeader, pageVars>>

\* React unmounts the instance: cleanup of the last run
Unmount(d) ==
  /\ mounted[d]
  /\ mounted' = [mounted EXCEPT ![d] = FALSE]
  /\ effects' = [effects EXCEPT ![d] = Cleanup(@)]
  /\ UNCHANGED <<content, status, svg, appVars, treeVars, activeHeader, pageVars>>

\* the 100 ms timer fires: "if (!isMounted) return", else read the theme
\* of the page, initialize and call mermaid.render
TimerFire(d, i) ==
  /\ i \in 1..Len(effects[d])
  /\ effects[d][i].pc = "timer"
  /\ effects' = [effects EXCEPT ![d] =
                   IF StillMounted(@[i])
                   THEN [@ EXCEPT ![i].pc = "render",
                                  ![i].isDark = (theme = "dark")]
                   ELSE Return(@, i, "none")]
  /\ UNCHANGED <<mounted, content, status, svg, appVars, treeVars, activeHeader, pageVars>>

\* the dependencies of the effect with the theme among them
EffectDepsWithTheme(c, t) == <<c, t>>

\* the dependencies of the effect: [content]
EffectDeps(c, t) == <<c>>

\* mermaid.render resolves
RenderOkShared(d, i) ==
  /\ i \in 1..Len(effects[d])
  /\ effects[d][i].pc = "render"
  /\ effects' = [effects EXCEPT ![d] = Return(@, i, "ok")]
  /\ IF StillMounted(effects[d][i])
     THEN LET same == {x \in Diagrams : content[x] = content[d]} IN
          /\ svg' = [x \in Diagrams |-> IF x \in same
                       THEN SvgOf(effects[d][i].content) ELSE svg[x]]
          /\ status' = [x \in Diagrams |-> IF x \in same
                          THEN "success" ELSE status[x]]
     ELSE UNCHANGED <<svg, status>>
  /\ UNCHANGED <<mounted, content, appVars, treeVars, activeHeader, pageVars>>

RenderOk(d, i) ==
  /\ i \in 1..Len(effects[d])
  /\ effects[d][i].pc = "render"
  /\ effects' = [effects EXCEPT ![d] = Return(@, i, "ok")]
  /\ IF StillMounted(effects[d][i])
     THEN /\ svg' = [svg EXCEPT ![d] = SvgOf(effects[d][i].content)]
          /\ status' = [status EXCEPT ![d] = "success"]
     ELSE UNCHANGED <<svg, status>>
  /\ UNCHANGED <<mounted, content, appVars, treeVars, activeHeader, pageVars>>

\* mermaid.initialize or mermaid.render throws: the catch block
RenderFailUncaught(d, i) ==
  /\ i \in 1..Len(effects[d])
  /\ effects[d][i].pc = "render"
  /\ effects' = [effects EXCEPT ![d] = Return(@, i, "fail")]
  /\ UNCHANGED <<status, mounted, content, svg, appVars, treeVars, activeHeader, pageVars>>

RenderFail(d, i) ==
  /\ i \in 1..Len(effects[d])
  /\ effects[d][i].pc = "render"
  /\ effects' = [effects EXCEPT ![d] = Return(@, i, "fail")]
  /\ IF StillMounted(effects[d][i])
     THEN status' = [status EXCEPT ![d] = "error"]
     ELSE UNCHANGED status
  /\ UNCHANGED <<mounted, content, svg, appVars, treeVars, activeHeader, pageVars>>

\* ------------------------------------------------------------------------
\* AnalysisView: table of contents, scroll spy, zoom
\* ------------------------------------------------------------------------
\* zoomedImage is null
NoImage == 0

\* a scroll event of the content area; it is heard only in document mode
Scroll(gap, tops) ==
  /\ docPc = "rendered"
  /\ tops \in TopsFor(Len(headingAnchors))
  /\ scrollGap' = gap
  /\ IF selectedFile = NoFile
     THEN headingTops' = tops
     ELSE tops = headingTops /\ UNCHANGED headingTops
  /\ activeHeader' = IF ListenerAttached
                     THEN ScrollSpy(activeHeader, tableOfContents, DomAnchors,
                                    gap, tops)
                     ELSE activeHeader
  /\ UNCHANGED <<appVars, treeVars, diagramVars, docVars, zoomVars,
                 codeVars, lastClick>>

\* a click on entry k of the table of contents; from the file viewer the
\* page returns to the document and the scroll-spy effect runs once
scrollToHeader(k, gap, tops) ==
  /\ docPc = "rendered"
  /\ k \in 1..Len(tableOfContents)
  /\ tops \in TopsFor(Len(headingAnchors))
  /\ LET id == tableOfContents[k].id
         element == id # <<>> /\ id \in Range(DomAnchors)
         clicked == IF element THEN id ELSE activeHeader
     IN  IF selectedFile # NoFile
         THEN /\ activeHeader' = ScrollSpy(clicked, tableOfContents,
                                           headingAnchors, gap, tops)
              /\ scrollGap' = gap
              /\ headingTops' = tops
         ELSE /\ gap = scrollGap
              /\ tops = headingTops
              /\ activeHeader' = clicked
              /\ UNCHANGED scrollVars
  /\ selectedFile' = NoFile
  /\ fileContent' = ""
  /\ UNCHANGED <<rootFiles, isTreeLoading, rootPending, isFileLoading,
                 fileReqs, isOpen, children, isLoading, listingReqs, issued,
                 instIssued, instEmpty, everCached>>
  /\ lastClick' = [clicked |-> TRUE, id |-> tableOfContents[k].id,
                   active |-> activeHeader']
  /\ UNCHANGED <<appVars, diagramVars, docVars, zoomVars, codeVars>>

\* the smallest object URL id not in use
FreshUrl == Min((1..(Cardinality(liveUrls) + 1)) \ liveUrls)

\* a click on the zoom control of diagram d
handleZoom(d) ==
  /\ mounted[d]
  /\ zoomedImage = NoImage
  /\ status[d] = "success" /\ svg[d] # NoSvg
  /\ Cardinality(liveUrls) < MaxZooms
  /\ liveUrls' = liveUrls \cup {FreshUrl}
  /\ zoomedImage' = FreshUrl
  /\ UNCHANGED <<appVars, treeVars, diagramVars, activeHeader, docVars,
                 scrollVars, codeVars, lastClick>>

\* a click on the backdrop or the close button of the zoom modal
closeZoom ==
  /\ zoomedImage # NoImage
  /\ zoomedImage' = NoImage
  /\ UNCHANGED liveUrls
  /\ UNCHANGED <<appVars, treeVars, diagramVars, activeHeader, docVars,
                 scrollVars, codeVars, lastClick>>

\* ------------------------------------------------------------------------
\* App: search, repository selection, generation of the analysis
\* ------------------------------------------------------------------------
\* the repositories a card can select; no repository, no analysis
Repos == {"r1", "r2"}

NoRepo == "null"

NoAnalysis == [id |-> 0, repoName |-> "null"]

\* the ways generateRepoAnalysis throws
FailureKinds == {"request error", "not ok", "no api key", "empty output"}

\* what getTrendingRepos returns for the periods daily and weekly
TrendingOf(p) == IF p = "daily" THEN <<"r1", "r2">> ELSE <<"r2">>

\* which of its three returns the render of App takes
View ==
  IF selectedRepo # NoRepo /\ loadingStatus = "complete" /\ analysis # NoAnalysis
  THEN "analysis"
  ELSE IF selectedRepo # NoRepo /\ loadingStatus \in {"analyzing", "error"}
  THEN IF loadingStatus = "analyzing" THEN "loading" ELSE "error"
  ELSE "home"

\* the calls of handleRepoSelect suspended at their await
PendingAttempts == {i \in 1..Len(attempts) : attempts[i].state = "pending"}

\* the state of AnalysisView after a step of App: it is kept while the
\* analysis view stays displayed, and lost when AnalysisView is unmounted
DocumentAfter ==
  IF View = "analysis" /\ View' = "analysis"
  THEN UNCHANGED <<tableOfContents, headingAnchors, activeHeader>>
  ELSE /\ tableOfContents' = <<>>
       /\ headingAnchors' = <<>>
       /\ activeHeader' = <<>>

\* the catch block of handleRepoSelect
Catch(i) == loadingStatus' = "error"

\* handleSearch, up to its await (the form is disabled while searching)
handleSearch ==
  /\ View = "home"
  /\ loadingStatus # "searching"
  /\ searching < MaxSearches
  /\ loadingStatus' = "searching"
  /\ searchError' = ""
  /\ repos' = <<>>
  /\ searching' = searching + 1
  /\ UNCHANGED <<selectedRepo, analysis, theme, attempts>>
  /\ UNCHANGED <<trendingRepos, period, trendingReqs>>
  /\ DocumentAfter
  /\ UNCHANGED <<rawText, analysisContent, docPc>>
  /\ UNCHANGED <<treeVars, diagramVars, scrollVars, zoomVars, codeVars,
                 lastClick>>

\* handleSearch after its await: both the try and the catch set IDLE; the
\* search found repositories, found none, or failed
SearchDone(outcome) ==
  /\ searching > 0
  /\ searching' = searching - 1
  /\ loadingStatus' = "idle"
  /\ repos' = CASE outcome = "found" -> <<"r1", "r2">>
               [] outcome = "empty" -> <<>>
               [] OTHER -> repos
  /\ searchError' = CASE outcome = "found" -> searchError
                     [] outcome = "empty" -> "no results"
                     [] OTHER -> "search failed"
  /\ UNCHANGED <<selectedRepo, analysis, theme, attempts>>
  /\ UNCHANGED <<trendingRepos, period, trendingReqs>>
  /\ DocumentAfter
  /\ docPc' = IF docPc = "rendered" THEN "repaired" ELSE docPc
  /\ UNCHANGED <<rawText, analysisContent>>
  /\ UNCHANGED <<treeVars, diagramVars, scrollVars, zoomVars, codeVars,
                 lastClick>>

\* handleRepoSelect, up to its await: a repository card of the home view,
\* of the search results or, when there are none, of the trending list
handleRepoSelect(repo) ==
  /\ View = "home"
  /\ InSeq(repo, IF repos # <<>> THEN repos ELSE trendingRepos)
  /\ Len(attempts) < MaxAttempts
  /\ selectedRepo' = repo
  /\ analysis' = NoAnalysis
  /\ loadingStatus' = "analyzing"
  /\ attempts' = Append(attempts, [repo |-> repo, state |-> "pending"])
  /\ UNCHANGED <<theme, searching, homeVars>>
  /\ DocumentAfter
  /\ rawText' = <<>>
  /\ analysisContent' = <<>>
  /\ docPc' = "raw"
  /\ UNCHANGED <<treeVars, diagramVars, scrollVars, zoomVars, codeVars,
                 lastClick>>

\* generateRepoAnalysis returns the analysis made of the answer text, and
\* handleRepoSelect goes on: setAnalysis(result), setStatus(COMPLETE)
AnalysisResolved(i, text) ==
  /\ i \in PendingAttempts
  /\ text # <<>>
  /\ rawText' = text
  /\ analysisContent' = repairMarkdownContent(text)
  /\ analysis' = [id |-> i, repoName |-> attempts[i].repo]
  /\ loadingStatus' = "complete"
  /\ attempts' = [attempts EXCEPT ![i].state = "done"]
  /\ docPc' = "repaired"
  /\ UNCHANGED <<selectedRepo, theme, searching, homeVars>>
  /\ DocumentAfter
  /\ UNCHANGED <<treeVars, diagramVars, scrollVars, zoomVars, codeVars,
                 lastClick>>

\* generateRepoAnalysis throws, and handleRepoSelect goes on in its catch
AnalysisRejected(i, kind) ==
  /\ i \in PendingAttempts
  /\ attempts' = [attempts EXCEPT ![i].state = kind]
  /\ Catch(i)
  /\ searchError' = kind
  /\ UNCHANGED <<selectedRepo, analysis, theme, searching>>
  /\ UNCHANGED <<repos, trendingRepos, period, trendingReqs>>
  /\ DocumentAfter
  /\ docPc' = IF docPc = "rendered" /\ View' # "analysis" THEN "repaired"
              ELSE docPc
  /\ UNCHANGED <<rawText, analysisContent>>
  /\ UNCHANGED <<treeVars, diagramVars, scrollVars, zoomVars, codeVars,
                 lastClick>>

\* handleBack: the button of the error view, onBack of the analysis view
handleBack ==
  /\ View \in {"error", "analysis"}
  /\ selectedRepo' = NoRepo
  /\ analysis' = NoAnalysis
  /\ loadingStatus' = "idle"
  /\ UNCHANGED <<theme, attempts, searching, homeVars>>
  /\ DocumentAfter
  /\ rawText' = <<>>
  /\ analysisContent' = <<>>
  /\ docPc' = "raw"
  /\ UNCHANGED <<treeVars, diagramVars, scrollVars, zoomVars, codeVars,
                 lastClick>>

\* handleClearSearch: the clear button above the search results; with back,
\* the logo of the home view, which calls handleClearSearch and handleBack
handleClearSearch(back) ==
  /\ View = "home"
  /\ back \/ repos # <<>>
  /\ repos' = <<>>
  /\ searchError' = ""
  /\ loadingStatus' = "idle"
  /\ selectedRepo' = IF back THEN NoRepo ELSE selectedRepo
  /\ analysis' = IF back THEN NoAnalysis ELSE analysis
  /\ UNCHANGED <<theme, attempts, searching>>
  /\ UNCHANGED <<trendingRepos, period, trendingReqs>>
  /\ DocumentAfter
  /\ UNCHANGED <<rawText, analysisContent, docPc>>
  /\ UNCHANGED <<treeVars, diagramVars, scrollVars, zoomVars, codeVars,
                 lastClick>>

\* setPeriod, and the fetchTrending effect up to its await
setPeriod(p) ==
  /\ View = "home"
  /\ p # period
  /\ Cardinality(trendingReqs) < MaxTrendingFetches
  /\ period' = p
  /\ trendingRepos' = <<>>
  /\ trendingReqs' = trendingReqs \cup
       {[id |-> Min({i \in 1..MaxTrendingFetches :
                      \A r \in trendingReqs : r.id # i}),
         period |-> p]}
  /\ UNCHANGED <<loadingStatus, selectedRepo, analysis, theme, attempts,
                 searching, repos, searchError>>
  /\ DocumentAfter
  /\ UNCHANGED <<rawText, analysisContent, docPc>>
  /\ UNCHANGED <<treeVars, diagramVars, scrollVars, zoomVars, codeVars,
                 lastClick>>

\* fetchTrending after its await: setTrendingRepos(data); getTrendingRepos
\* returns the list, or the empty list when the request failed
TrendingDone(r, ok) ==
  /\ r \in trendingReqs
  /\ trendingReqs' = trendingReqs \ {r}
  /\ trendingRepos' = IF ok THEN TrendingOf(r.period) ELSE <<>>
  /\ UNCHANGED <<loadingStatus, selectedRepo, analysis, theme, attempts,
                 searching, repos, searchError, period>>
  /\ DocumentAfter
  /\ UNCHANGED <<rawText, analysisContent, docPc>>
  /\ UNCHANGED <<treeVars, diagramVars, scrollVars, zoomVars, codeVars,
                 lastClick>>

\* onToggleTheme: setTheme of App; every mounted diagram re-renders, and
\* its effect runs again if one of its dependencies has changed
ToggleTheme ==
  /\ View \in {"home", "analysis"}
  /\ theme' = IF theme = "light" THEN "dark" ELSE "light"
  /\ LET rerun == {d \in Diagrams :
                     /\ mounted[d]
                     /\ EffectDeps(content[d], theme')
                          # EffectDeps(content[d], theme)}
     IN  /\ status' = [d \in Diagrams |->
                         IF d \in rerun THEN "loading" ELSE status[d]]
         /\ effects' = [d \in Diagrams |->
                          IF d \in rerun
                          THEN Append(Suspended(Cleanup(effects[d])),
                                      Effect(content[d]))
                          ELSE effects[d]]
  /\ UNCHANGED <<mounted, content, svg>>
  /\ UNCHANGED <<loadingStatus, selectedRepo, analysis, attempts, searching,
                 homeVars>>
  /\ UNCHANGED <<treeVars, activeHeader, pageVars>>

\* the one pending call of generateRepoAnalysis returns the analysis made
\* of the answer rawText
AnalysisDone ==
  /\ loadingStatus = "analyzing"
  /\ docPc = "raw"
  /\ \E i \in PendingAttempts : AnalysisResolved(i, rawText)

\* AnalysisView renders the document: the table of contents is computed and
\* the headings get their anchors
RenderDocument ==
  /\ View = "analysis"
  /\ docPc = "repaired"
  /\ tableOfContents' = extractToc(analysisContent)
  /\ headingAnchors' = RenderedAnchors(analysisContent)
  /\ docPc' = "rendered"
  /\ UNCHANGED <<rawText, analysisContent>>
  /\ UNCHANGED <<appVars, treeVars, diagramVars, activeHeader,
                 scrollVars, zoomVars, codeVars, lastClick>>

\* the code element has not rendered yet
NotRendered == [kind |-> "none", content |-> <<>>, lang |-> <<>>]

\* the markdown renderer renders one code element
RenderCodeBlock ==
  /\ rendered = NotRendered
  /\ rendered' = CodeBlock(codeBlock)
  /\ UNCHANGED codeBlock
  /\ UNCHANGED <<appVars, treeVars, diagramVars, activeHeader, docVars,
                 scrollVars, zoomVars, lastClick>>

\* ------------------------------------------------------------------------
\* Specifications
\* ------------------------------------------------------------------------
\* AnalysisView before anything was fetched; pending says that fetchRoot is
\* in flight
TreeState(pending) ==
  /\ rootFiles = <<>>
  /\ isTreeLoading = TRUE
  /\ rootPending = pending
  /\ selectedFile = NoFile
  /\ fileContent = ""
  /\ isFileLoading = FALSE
  /\ fileReqs = {}
  /\ isOpen = [n \in Nodes |-> FALSE]
  /\ children = [n \in Nodes |-> <<>>]
  /\ isLoading = [n \in Nodes |-> FALSE]
  /\ listingReqs = {}
  /\ issued = [n \in Dirs |-> 0]
  /\ instIssued = [n \in Dirs |-> 0]
  /\ instEmpty = [n \in Dirs |-> FALSE]
  /\ everCached = [n \in Dirs |-> FALSE]

TreeInit == TreeState(TRUE)

\* the document view has just rendered its diagram blocks
DiagramInit(cs) ==
  /\ mounted = [d \in Diagrams |-> TRUE]
  /\ content = cs
  /\ status = [d \in Diagrams |-> "loading"]
  /\ svg = [d \in Diagrams |-> NoSvg]
  /\ effects = [d \in Diagrams |-> <<Effect(cs[d])>>]

\* no diagram is rendered
DiagramNone ==
  /\ mounted = [d \in Diagrams |-> FALSE]
  /\ content = [d \in Diagrams |-> ""]
  /\ status = [d \in Diagrams |-> "loading"]
  /\ svg = [d \in Diagrams |-> NoSvg]
  /\ effects = [d \in Diagrams |-> <<>>]

\* the analysis view is displayed
AppInit ==
  /\ loadingStatus = "complete"
  /\ selectedRepo = "r1"
  /\ analysis = [id |-> 1, repoName |-> "r1"]
  /\ theme = "light"
  /\ attempts = <<[repo |-> "r1", state |-> "done"]>>
  /\ searching = 0
  /\ repos = <<>>
  /\ searchError = ""
  /\ trendingRepos = TrendingOf("daily")
  /\ period = "daily"
  /\ trendingReqs = {}

\* the characters of a diagram source
TextOf(c) ==
  CASE c = "graph TD" -> <<"g", "r", "a", "p", "h", " ", "T", "D">>
    [] c = "pie" -> <<"p", "i", "e">>
    [] OTHER -> <<>>

TwoGraphs == [d \in Diagrams |-> "graph TD"]

\* the code element of a diagram block with source c
DiagramBlock(c) ==
  [className |-> LanguagePrefix \o MermaidWord,
   children |-> TextOf(c) \o <<"\n">>,
   inline |-> FALSE]

\* an answer: the lines heads, then one diagram block per slot
DocOf(heads, cs) ==
  join(heads \o <<FenceMermaid, TextOf(cs[1]), Fence,
                  FenceMermaid, TextOf(cs[2]), Fence>>)

\* the gap of a page scrolled to its top that is longer than the window
TopGap == 300

\* no entry of the table of contents was clicked yet
NoClick == [clicked |-> FALSE, id |-> <<>>, active |-> <<>>]

\* AnalysisView has rendered the analysis made of the answer text, and the
\* scroll-spy effect has run once on the geometry gap, tops
PageInit(text, gap, tops) ==
  /\ rawText = text
  /\ analysisContent = repairMarkdownContent(text)
  /\ docPc = "rendered"
  /\ tableOfContents = extractToc(repairMarkdownContent(text))
  /\ headingAnchors = RenderedAnchors(repairMarkdownContent(text))
  /\ tops \in TopsFor(Len(headingAnchors))
  /\ \A i \in 1..Len(tops) : tops[i] >= 0
  /\ scrollGap = gap
  /\ headingTops = tops
  /\ activeHeader = ScrollSpy(<<>>, tableOfContents, headingAnchors, gap, tops)
  /\ zoomedImage = NoImage
  /\ liveUrls = {}
  /\ lastClick = NoClick

\* the answer has arrived and nothing is rendered yet
AnswerInit(texts) ==
  /\ loadingStatus = "analyzing"
  /\ selectedRepo = "r1"
  /\ analysis = NoAnalysis
  /\ theme = "light"
  /\ attempts = <<[repo |-> "r1", state |-> "pending"]>>
  /\ searching = 0
  /\ repos = <<>>
  /\ searchError = ""
  /\ trendingRepos = TrendingOf("daily")
  /\ period = "daily"
  /\ trendingReqs = {}
  /\ TreeState(FALSE)
  /\ DiagramNone
  /\ rawText \in texts
  /\ analysisContent = <<>>
  /\ docPc = "raw"
  /\ tableOfContents = <<>>
  /\ headingAnchors = <<>>
  /\ activeHeader = <<>>
  /\ scrollGap = TopGap
  /\ headingTops = <<>>
  /\ zoomedImage = NoImage
  /\ liveUrls = {}
  /\ lastClick = NoClick
  /\ codeBlock = DiagramBlock("graph TD")
  /\ rendered = NotRendered

\* the code element under study has rendered
CodeInit(c) == codeBlock = DiagramBlock(c) /\ rendered = CodeBlock(codeBlock)

\* the home view after construction: nothing selected, nothing rendered,
\* the fetchTrending effect of the mount in flight
InitApp ==
  /\ loadingStatus = "idle"
  /\ selectedRepo = NoRepo
  /\ analysis = NoAnalysis
  /\ theme = "light"
  /\ attempts = <<>>
  /\ searching = 0
  /\ repos = <<>>
  /\ searchError = ""
  /\ trendingRepos = <<>>
  /\ period = "daily"
  /\ trendingReqs = {[id |-> 1, period |-> "daily"]}
  /\ TreeState(FALSE)
  /\ DiagramNone
  /\ rawText = <<>>
  /\ analysisContent = <<>>
  /\ docPc = "raw"
  /\ tableOfContents = <<>>
  /\ headingAnchors = <<>>
  /\ activeHeader = <<>>
  /\ scrollGap = TopGap
  /\ headingTops = <<>>
  /\ zoomedImage = NoImage
  /\ liveUrls = {}
  /\ lastClick = NoClick
  /\ codeBlock = DiagramBlock("graph TD")
  /\ rendered = NotRendered

\* the answers of the model in the specification of App
AppAnswers == {<<"#", " ", "T">>, <<"x">>}

InitTree ==
  /\ AppInit /\ TreeInit /\ DiagramInit(TwoGraphs)
  /\ PageInit(DocOf(<<>>, TwoGraphs), TopGap, <<>>)
  /\ CodeInit("graph TD")

InitDiagram ==
  /\ AppInit /\ TreeInit /\ DiagramInit(TwoGraphs)
  /\ PageInit(DocOf(<<>>, TwoGraphs), TopGap, <<>>)
  /\ CodeInit("graph TD")

\* a document of two diagram blocks, of any sources
InitZoom ==
  /\ AppInit /\ TreeInit
  /\ \E cs \in [Diagrams -> Contents] :
       /\ DiagramInit(cs)
       /\ PageInit(DocOf(<<>>, cs), TopGap, <<>>)
       /\ CodeInit(cs[1])

\* heading lines of the documents of the scroll-spy specification
ViewHeads ==
  {<<>>,
   <<<<"#", " ", "a">>,
    <<"#", " ", "a">>>>,
   <<<<"#", " ", "a">>,
    <<"#", "#", " ", "b">>>>,
   <<<<"#", " ", "!">>,
    <<"#", " ", "a">>>>}

InitView ==
  /\ AppInit /\ TreeInit /\ DiagramInit(TwoGraphs)
  /\ \E heads \in ViewHeads, gap \in Gaps,
        tops \in UNION {TopsFor(n) : n \in 0..2} :
       PageInit(DocOf(heads, TwoGraphs), gap, tops)
  /\ CodeInit("graph TD")

\* the lines answers are made of
RepairLines ==
  {<<Tick, Tick, Tick>>,
   <<Tick, Tick, Tick, "t", "e", "x", "t">>,
   <<Tick, Tick, Tick, "m", "e", "r", "m", "a", "i", "d">>,
   <<Tick, Tick, Tick, "m", "a", "r", "k", "d", "o", "w", "n">>,
   <<"g", "r", "a", "p", "h", " ", "T", "D">>,
   <<"#", " ", "T">>,
   <<"m", "e", "r", "m", "a", "i", "d">>,
   <<"x">>}

TocLines ==
  {<<"#", " ", "a">>,
   <<"#", "#", " ", "a">>,
   <<"#", " ", "a", "-", "1">>,
   <<"#", " ", "!">>,
   <<"#", "#", "#", "#", " ", "a">>,
   <<"#", "a">>,
   <<Tick, Tick, Tick>>,
   <<"b">>,
   <<"#", " ", "A", " ", "b">>,
   <<"#", " ", Tick, "a", Tick>>}

\* the answers of one to MaxLines lines over an alphabet of lines
AnswersOver(alphabet) ==
  {join(ls) : ls \in UNION {[1..n -> alphabet] : n \in 1..MaxLines}}

\* answers wrapped in a fence tagged markdown, with whitespace around the
\* wrapper
WrappedAnswers ==
  {lead \o FenceMarkdown \o <<"\n">> \o body \o <<"\n">> \o Fence \o trail :
     lead \in {<<>>, <<" ">>, <<"\n">>},
     body \in {<<"#", " ", "T", "\n", "x">>, <<"x">>},
     trail \in {<<>>, <<"\n">>, <<" ">>}}

InitRepair == AnswerInit(AnswersOver(RepairLines) \cup WrappedAnswers)

InitToc == AnswerInit(AnswersOver(TocLines))

\* an answer of two headings: a text of letters, blanks, hyphens and
\* punctuation that slugify deletes, then the same text without that
\* punctuation
InitSlug ==
  AnswerInit({join(<<<<"#", " ">> \o t,
                     <<"#", " ">> \o SelectSeq(t, LAMBDA c : c # "!")>>) :
                t \in UNION {[1..n -> {"a", "A", "-", " ", "!", "U+4E2D"}] :
                               n \in 1..MaxSlugLen}})

\* the props of the code elements
ClassNames == {Undefined, LanguagePrefix \o MermaidWord,
               LanguagePrefix \o <<"t", "e", "x", "t">>,
               LanguagePrefix \o <<"c", "+", "+">>}

Filler == [i \in 1..ShortLimit |-> "x"]

CodeTexts ==
  {lead \o first \o tail \o last :
     lead \in {<<>>, <<" ">>, <<"\n">>},
     first \in {<<"g", "r", "a", "p", "h", " ", "T", "D">>, <<"p", "i", "e">>, <<"g", "r", "a", "p", "h">>, <<"x", " ", "=", " ", "1">>},
     tail \in {<<>>, <<" ">>, <<"\n", "A", "-", "-", ">", "B">>, <<" ">> \o Filler,
               <<" ">> \o SubSeq(Filler, 1, ShortLimit - 7),
               <<" ">> \o SubSeq(Filler, 1, ShortLimit - 6)},
     last \in {<<>>, <<"\n">>}}

CodeBlocks ==
  [className : ClassNames, children : CodeTexts \cup {<<>>}, inline : BOOLEAN]

InitCode ==
  /\ AppInit /\ TreeInit /\ DiagramInit(TwoGraphs)
  /\ PageInit(DocOf(<<>>, TwoGraphs), TopGap, <<>>)
  /\ codeBlock \in CodeBlocks
  /\ rendered = NotRendered

\* clicks at any time
NextTree ==
  \/ \E n \in Nodes : handleToggle(n)
  \/ \E ok \in BOOLEAN : RootDone(ok)
  \/ \E r \in listingReqs, ok \in BOOLEAN : ListingDone(r, ok)
  \/ \E r \in fileReqs, ok \in BOOLEAN : FileDone(r, ok)
  \/ \E gap \in Gaps, tops \in TopsFor(Len(headingAnchors)) : closeFileView(gap, tops)

\* a node is clicked only when no listing of its path is pending
ToggleSeq(n) == PendingOn(n) = {} /\ handleToggle(n)

NextTreeSeq ==
  \/ \E n \in Nodes : ToggleSeq(n)
  \/ \E ok \in BOOLEAN : RootDone(ok)
  \/ \E r \in listingReqs, ok \in BOOLEAN : ListingDone(r, ok)
  \/ \E r \in fileReqs, ok \in BOOLEAN : FileDone(r, ok)
  \/ \E gap \in Gaps, tops \in TopsFor(Len(headingAnchors)) : closeFileView(gap, tops)

NextDiagram ==
  \/ \E d \in Diagrams, c \in Contents : Mount(d, c)
  \/ \E d \in Diagrams, c \in Contents : ContentChange(d, c)
  \/ \E d \in Diagrams : Unmount(d)
  \/ \E d \in Diagrams, i \in 1..(MaxSuperseded + 1) : TimerFire(d, i)
  \/ \E d \in Diagrams, i \in 1..(MaxSuperseded + 1) : RenderOk(d, i)
  \/ \E d \in Diagrams, i \in 1..(MaxSuperseded + 1) : RenderFail(d, i)

SpecTree == InitTree /\ [][NextTree]_vars

SpecTreeSeq == InitTree /\ [][NextTreeSeq]_vars

SpecDiagram == InitDiagram /\ [][NextDiagram]_vars

\* the diagrams of a document that stays as it is are mounted, rendered and
\* unmounted while the theme is toggled
NextTheme ==
  \/ \E d \in Diagrams, c \in Contents : Mount(d, c)
  \/ \E d \in Diagrams : Unmount(d)
  \/ \E d \in Diagrams, i \in 1..(MaxSuperseded + 1) : TimerFire(d, i)
  \/ \E d \in Diagrams, i \in 1..(MaxSuperseded + 1) : RenderOk(d, i)
  \/ \E d \in Diagrams, i \in 1..(MaxSuperseded + 1) : RenderFail(d, i)
  \/ ToggleTheme

SpecTheme == InitDiagram /\ [][NextTheme]_vars

\* the table of contents, the scroll spy and the file viewer
NextView ==
  \/ \E ok \in BOOLEAN : RootDone(ok)
  \/ \E n \in Nodes : ToggleFile(n)
  \/ \E r \in fileReqs, ok \in BOOLEAN : FileDone(r, ok)
  \/ \E gap \in Gaps, tops \in TopsFor(Len(headingAnchors)) : closeFileView(gap, tops)
  \/ \E gap \in Gaps, tops \in TopsFor(Len(headingAnchors)) : Scroll(gap, tops)
  \/ \E k \in 1..Len(tableOfContents), gap \in Gaps,
        tops \in TopsFor(Len(headingAnchors)) : scrollToHeader(k, gap, tops)

SpecView == InitView /\ [][NextView]_vars

\* diagrams render and are zoomed
NextZoom ==
  \/ \E d \in Diagrams, i \in 1..(MaxSuperseded + 1) : TimerFire(d, i)
  \/ \E d \in Diagrams, i \in 1..(MaxSuperseded + 1) : RenderOk(d, i)
  \/ \E d \in Diagrams, i \in 1..(MaxSuperseded + 1) : RenderFail(d, i)
  \/ \E d \in Diagrams : handleZoom(d)
  \/ closeZoom

SpecZoom == InitZoom /\ [][NextZoom]_vars

\* an answer is repaired and rendered
NextDoc == AnalysisDone \/ RenderDocument

SpecRepair == InitRepair /\ [][NextDoc]_vars

SpecToc == InitToc /\ [][NextDoc]_vars

SpecSlug == InitSlug /\ [][NextDoc]_vars

\* searches, selections, generations and returns to the home view
NextApp ==
  \/ handleSearch
  \/ \E outcome \in {"found", "empty", "failed"} : SearchDone(outcome)
  \/ \E repo \in Repos : handleRepoSelect(repo)
  \/ \E i \in 1..MaxAttempts, text \in AppAnswers : AnalysisResolved(i, text)
  \/ \E i \in 1..MaxAttempts, kind \in FailureKinds : AnalysisRejected(i, kind)
  \/ handleBack
  \/ \E back \in BOOLEAN : handleClearSearch(back)
  \/ \E p \in {"daily", "weekly"} : setPeriod(p)
  \/ \E r \in trendingReqs, ok \in BOOLEAN : TrendingDone(r, ok)
  \/ RenderDocument

SpecApp == InitApp /\ [][NextApp]_vars

\* a code element is rendered
NextCode == RenderCodeBlock

SpecCode == InitCode /\ [][NextCode]_vars

\* ------------------------------------------------------------------------
\* Properties of the lazy file tree
\* ------------------------------------------------------------------------
\* C1: for every directory node at most one listing fetch of its path is in
\* flight at any time: an expand requested while the node's fetch is pending
\* issues no second fetch.
C1_NoDoubleFetch ==
  \A n \in Dirs : Cardinality(PendingOn(n)) <= 1

\* C2 (clicks issued one after the other): a node instance whose listing
\* came back non-empty has issued exactly one listing fetch, and from then
\* on no step issues a fetch for it or changes its cached children: a later
\* expand only toggles visibility.
C2_OneFetchWhenCached ==
  /\ [](\A n \in Dirs :
          (Mounted(n) /\ children[n] # <<>> /\ ~instEmpty[n])
             => (instIssued[n] = 1 /\ children[n] = getRepoContents(n, TRUE)))
  /\ [][\A n \in Dirs :
          (Mounted(n) /\ children[n] # <<>> /\ children'[n] # <<>>)
             => (issued'[n] = issued[n] /\ children'[n] = children[n])]_vars

\* src was loaded once, collapsed (which dropped the instance of src/lib that
\* had fetched) and expanded again without a second fetch
C2_Witness ==
  /\ isOpen["src"] /\ children["src"] # <<>>
  /\ issued["src"] = 1 /\ instIssued["src"] = 1
  /\ Mounted("src/lib") /\ issued["src/lib"] >= 1 /\ instIssued["src/lib"] = 0
  /\ listingReqs = {}

\* C3 (clicks issued one after the other): a node instance is loaded once
\* its first listing fetch has completed, whatever the result, so it never
\* issues a second listing fetch.
C3_LoadedAfterFirstFetch ==
  \A n \in Dirs : instIssued[n] <= 1

\* C4 (clicks issued one after the other): once a non-empty listing of a
\* path has been cached, no later step issues a listing fetch for that path,
\* also after an ancestor was collapsed and expanded again.
C4_CacheSurvivesCollapse ==
  [][\A n \in Dirs : everCached[n] => issued'[n] = issued[n]]_vars

\* ------------------------------------------------------------------------
\* Properties of the diagram render pipeline
\* ------------------------------------------------------------------------
\* C5: after a diagram instance is torn down, no step changes its status or
\* its artifact, whether its compile succeeds or fails afterwards.
C5_TeardownWritesNothing ==
  [][\A d \in Diagrams :
       (~mounted[d] /\ ~mounted'[d])
          => (status'[d] = status[d] /\ svg'[d] = svg[d])]_vars

\* a compile that completed after the teardown of its instance
C5_Witness ==
  \E d \in Diagrams :
    /\ ~mounted[d]
    /\ status[d] = "loading"
    /\ Current(d).pc = "done"
    /\ Current(d).outcome \in {"ok", "fail"}

\* C6: a content change of a mounted diagram sets its status to Loading and
\* starts a fresh compile of the new content, and between content changes
\* status and artifact are written only by the completion of the current run
\* (never by a superseded one).
C6_FreshCompileOnChange ==
  [][\A d \in Diagrams :
       /\ (mounted[d] /\ mounted'[d] /\ content'[d] # content[d])
            => /\ status'[d] = "loading"
               /\ effects'[d][Len(effects'[d])].content = content'[d]
               /\ effects'[d][Len(effects'[d])].pc = "timer"
       /\ (mounted[d] /\ mounted'[d] /\ content'[d] = content[d]
             /\ (status'[d] # status[d] \/ svg'[d] # svg[d]))
            => /\ Current(d).pc = "render"
               /\ effects'[d][Len(effects'[d])].pc = "done"]_vars

\* C7: when renderChart of the current run of a mounted diagram has
\* returned, the diagram has left Loading (a diagram that stays mounted with
\* unchanged content ends in Success or Error).
C7_LeavesLoading ==
  \A d \in Diagrams :
    (mounted[d] /\ Current(d).pc = "done") => status[d] \in {"success", "error"}

\* C8: while an instance stays mounted with unchanged content its status
\* changes only from Loading to Success or from Loading to Error.
C8_StatusChangesOnce ==
  [][\A d \in Diagrams :
       (mounted[d] /\ mounted'[d] /\ content'[d] = content[d]
          /\ status'[d] # status[d])
          => (status[d] = "loading" /\ status'[d] \in {"success", "error"})]_vars

\* the second invocation (after a content change) ended in Error after the
\* first one had ended in Success
C8_Witness ==
  \E d \in Diagrams :
    /\ mounted[d]
    /\ status[d] = "error"
    /\ svg[d] # NoSvg
    /\ svg[d] # SvgOf(content[d])

\* the step in which the compile of the current run of mounted diagram d
\* fails
FailStep(d) ==
  /\ mounted[d]
  /\ Current(d).pc = "render"
  /\ Len(effects'[d]) = Len(effects[d])
  /\ effects'[d][Len(effects'[d])].outcome = "fail"

\* C9: a compiler failure for a mounted diagram sets that diagram's status
\* to Error, keeps its source text, and changes nothing else: not the app's
\* loading status, not the document view, not another diagram.
C9_FailureIsLocal ==
  [][\A d \in Diagrams :
       FailStep(d)
         => /\ status'[d] = "error"
            /\ content'[d] = content[d]
            /\ content[d] = Current(d).content
            /\ mounted' = mounted
            /\ loadingStatus' = loadingStatus
            /\ selectedFile' = selectedFile
            /\ \A x \in Diagrams \ {d} :
                 /\ status'[x] = status[x]
                 /\ svg'[x] = svg[x]
                 /\ effects'[x] = effects[x]]_vars

\* one diagram failed next to a diagram that had succeeded
C9_Witness ==
  \E d, x \in Diagrams :
    /\ d # x
    /\ mounted[d] /\ status[d] = "error" /\ Current(d).outcome = "fail"
    /\ mounted[x] /\ status[x] = "success"
    /\ loadingStatus = "complete"

\* C10: of two diagrams mounted with identical content, each shows the
\* outcome of its own compile, and no step of one (completion or teardown)
\* changes the status or the artifact of the other.
C10_RenderIsolation ==
  /\ [](\A d, x \in Diagrams :
          (d # x /\ mounted[d] /\ mounted[x] /\ content[d] = content[x]
             /\ Current(d).pc = "done")
            => /\ Current(d).outcome = "ok"
                    => (status[d] = "success" /\ svg[d] = SvgOf(content[d]))
               /\ Current(d).outcome = "fail" => status[d] = "error")
  /\ [][\A d, x \in Diagrams :
          (d # x /\ mounted[d] /\ mounted[x] /\ content[d] = content[x]
             /\ effects'[x] = effects[x] /\ mounted'[x] = mounted[x]
             /\ content'[x] = content[x])
            => (status'[x] = status[x] /\ svg'[x] = svg[x])]_vars

\* identical content, one Success and one Error
C10_Witness ==
  /\ mounted[1] /\ mounted[2]
  /\ content[1] = content[2]
  /\ status[1] = "success" /\ Current(1).outcome = "ok"
  /\ status[2] = "error" /\ Current(2).outcome = "fail"

\* ------------------------------------------------------------------------
\* Properties of the zoom view
\* ------------------------------------------------------------------------
\* C11: an image resource made for the zoom view lives only while the zoom
\* modal is open: whenever no zoomed image is shown, no object URL made by a
\* zoom request is still live.
C11_NoResourceWithoutLightbox == zoomedImage = NoImage => liveUrls = {}

\* ------------------------------------------------------------------------
\* Properties of the scroll spy and the table of contents
\* ------------------------------------------------------------------------
\* a step in which handleScroll runs: a scroll event in document mode, or
\* the return from the file viewer to the document
ScrollEvaluation ==
  /\ selectedFile' = NoFile
  /\ selectedFile # NoFile \/ scrollVars' # scrollVars

\* C12: a scroll evaluation in document mode with a non-empty table of
\* contents, at less than 50 units from the maximum scroll extent, sets the
\* active header to the id of the last entry, wherever the heading anchors
\* are.
C12_BottomSelectsLast ==
  [][(/\ ScrollEvaluation
      /\ Len(tableOfContents) > 0
      /\ scrollGap' < 50)
       => activeHeader' = tableOfContents[Len(tableOfContents)].id]_vars

\* the page was scrolled to its bottom and the last entry is active, although
\* the last anchor that crossed the activation line has another id
C12_Witness ==
  /\ selectedFile = NoFile
  /\ Len(tableOfContents) > 1
  /\ scrollGap < 50
  /\ activeHeader = tableOfContents[Len(tableOfContents)].id
  /\ activeHeader # tableOfContents[1].id
  /\ headingTops[1] < 0
  /\ \E i \in 1..Len(headingTops) :
       /\ headingTops[i] < 150
       /\ \A j \in (i + 1)..Len(headingTops) : headingTops[j] >= 150
       /\ headingAnchors[i] # activeHeader

\* C13: a click on an entry of the table of contents sets the active header
\* to the id of that entry in the same step, for every entry (ids with a
\* disambiguation suffix included) and in document mode as in file-viewer
\* mode.
C13_ClickSetsActive == lastClick.clicked => lastClick.active = lastClick.id

\* C14: the active header is reset when the document view is left: right
\* after a file is selected the active header is empty.
C14_SelectResetsActive ==
  [][(selectedFile' # NoFile /\ selectedFile' # selectedFile)
       => activeHeader' = <<>>]_vars

\* ------------------------------------------------------------------------
\* Properties of the repair of the answer
\* ------------------------------------------------------------------------
\* C15: repairing is idempotent: repairing the repaired content again
\* changes nothing.
C15_RepairIdempotent ==
  docPc # "raw" => repairMarkdownContent(analysisContent) = analysisContent

\* the opening fences of a text: the fence lines with an even number of fence
\* lines before them
OpeningFences(lines) ==
  {i \in 1..Len(lines) :
     /\ IsFenceLine(lines[i])
     /\ Cardinality({j \in 1..(i - 1) : IsFenceLine(lines[j])}) % 2 = 0}

\* the lines after line i that are not blank
ContentAfter(lines, i) == {j \in (i + 1)..Len(lines) : trim(lines[j]) # <<>>}

\* C16: in the repaired content every opening fence whose first non-blank
\* content line begins with a diagram keyword carries the tag mermaid,
\* whatever tag the answer gave it and whatever other rule touched the block.
C16_KeywordFencesTagged ==
  docPc # "raw" =>
    LET lines == split(analysisContent)
    IN  \A i \in OpeningFences(lines) :
          (/\ ContentAfter(lines, i) # {}
           /\ KeywordAt(trim(lines[Min(ContentAfter(lines, i))])) # {})
            => trim(lines[i]) = FenceMermaid

\* ------------------------------------------------------------------------
\* Properties of the table of contents
\* ------------------------------------------------------------------------
\* C17: the table of contents never has two entries with the same id, also
\* when a later heading slugs to an id that a suffix has already made
\* (a, a, a-1) and when the slug is empty.
C17_TocIdsUnique ==
  docPc = "rendered" =>
    \A i, j \in 1..Len(tableOfContents) :
      i # j => tableOfContents[i].id # tableOfContents[j].id

\* the headings a, a, a-1 got the ids a, a-1, a-1-1
C17_Witness ==
  /\ docPc = "rendered"
  /\ Len(tableOfContents) = 3
  /\ tableOfContents[1].text = <<"a">>
  /\ tableOfContents[2].text = <<"a">>
  /\ tableOfContents[3].text = <<"a", "-", "1">>
  /\ tableOfContents[1].id = <<"a">>
  /\ tableOfContents[2].id = <<"a", "-", "1">>
  /\ tableOfContents[3].id = <<"a", "-", "1", "-", "1">>

\* the heading lines of a text outside every fenced block: an even number of
\* fence lines comes before them
OutsideHeadings(lines) ==
  {i \in 1..Len(lines) :
     /\ IsHeadingLine(lines[i])
     /\ ~IsFenceLine(lines[i])
     /\ Cardinality({j \in 1..(i - 1) : IsFenceLine(lines[j])}) % 2 = 0}

\* the k-th smallest element of a set of numbers
Nth(S, k) == CHOOSE i \in S : Cardinality({j \in S : j <= i}) = k

\* C18: heading lines inside a fenced block make no entry: the entries of
\* the table of contents are exactly the heading lines outside fences, in
\* order.
C18_FencedHeadingsSkipped ==
  docPc = "rendered" =>
    LET lines == split(analysisContent)
        hs == OutsideHeadings(lines)
    IN  /\ Len(tableOfContents) = Cardinality(hs)
        /\ \A k \in 1..Len(tableOfContents) :
             /\ tableOfContents[k].text = CleanText(HeadingText(lines[Nth(hs, k)]))
             /\ tableOfContents[k].level = HeadingLevel(lines[Nth(hs, k)])

\* the only heading line of the document lies between an opening and a
\* closing fence, and the table of contents is empty
C18_Witness ==
  /\ docPc = "rendered"
  /\ LET lines == split(analysisContent)
     IN  /\ Len(lines) = 3
         /\ lines[1] = Fence
         /\ IsHeadingLine(lines[2])
         /\ lines[3] = Fence
  /\ tableOfContents = <<>>

\* C19: the ids of the rendered level 1-3 heading anchors, in document
\* order, are the ids of the entries of the table of contents, in order.
C19_TocMatchesAnchors ==
  docPc = "rendered" =>
    headingAnchors = [i \in 1..Len(tableOfContents) |-> tableOfContents[i].id]

\* C20: a block-level code element without a language class whose content,
\* blanks around it aside, begins with a diagram keyword renders as a
\* diagram, whatever its shape: one short line, several lines, a long line.
C20_UntaggedDiagramRecovered ==
  (/\ rendered # NotRendered
   /\ ~codeBlock.inline
   /\ codeBlock.className = Undefined
   /\ KeywordAt(trim(codeBlock.children)) # {})
    => rendered.kind = "diagram"

\* the single short line graph TD, block-level and untagged, rendered as a
\* diagram
C20_Witness ==
  /\ codeBlock.children = <<"g", "r", "a", "p", "h", " ", "T", "D">>
  /\ codeBlock.className = Undefined
  /\ ~codeBlock.inline
  /\ rendered.kind = "diagram"
  /\ rendered.content = codeBlock.children

\* the content of a code element is diagram-shaped: blanks around it aside,
\* it begins with a diagram keyword
DiagramShaped(props) == KeywordAt(trim(props.children)) # {}

\* the content of a code element is one line of fewer than 80 characters
\* (the final newline the renderer appends to a fenced block aside)
ShortOneLine(props) ==
  LET text == StripFinalNewline(props.children)
  IN  (\A i \in 1..Len(text) : text[i] # "\n") /\ Len(text) < 80

C22_DiagramShapedNeverInline ==
  (rendered # NotRendered /\ ~codeBlock.inline /\ DiagramShaped(codeBlock))
    => rendered.kind # "inline"

\* C23: when a generation fails the app shows the error view with status
\* ERROR and no analysis, the document is not displayed, and leaving the
\* error view for another selection goes through IDLE with no repository
\* selected.
C23_FailureIsExplicit ==
  [][/\ \A i \in 1..Len(attempts) :
          (/\ attempts[i].state = "pending"
           /\ attempts'[i].state \in FailureKinds)
            => /\ loadingStatus' = "error"
               /\ analysis' = NoAnalysis
               /\ View' = "error"
               /\ docPc' # "rendered"
     /\ (View = "error" /\ selectedRepo' # selectedRepo)
          => /\ loadingStatus' = "idle"
             /\ selectedRepo' = NoRepo
             /\ analysis' = NoAnalysis]_vars

\* C24: when a listing or a file-content fetch ends, failed or not, the
\* node holds the sorted listing or the empty list, the viewer holds the
\* text or the fixed placeholder, the loading flag of the fetch is cleared,
\* and the status of the app and the rest of the tree are as before.
C24_FetchFailuresAreLocal ==
  [][/\ \A r \in listingReqs :
          (r.live /\ \A q \in listingReqs' : q.id # r.id) =>
            LET n == r.path IN
            /\ children'[n] \in {<<>>, SortNodes(ApiListing[n])}
            /\ isLoading'[n] = FALSE
            /\ appVars' = appVars
            /\ rootFiles' = rootFiles
            /\ <<selectedFile, fileContent, isFileLoading>>'
                 = <<selectedFile, fileContent, isFileLoading>>
            /\ \A m \in Nodes \ {n} :
                 /\ isOpen'[m] = isOpen[m]
                 /\ children'[m] = children[m]
                 /\ isLoading'[m] = isLoading[m]
     /\ (rootPending /\ ~rootPending') =>
            /\ rootFiles' \in {<<>>, SortNodes(ApiListing[Root])}
            /\ isTreeLoading' = FALSE
            /\ appVars' = appVars
            /\ <<selectedFile, fileContent, isFileLoading>>'
                 = <<selectedFile, fileContent, isFileLoading>>
     /\ \A f \in fileReqs :
          f \notin fileReqs' =>
            /\ fileContent' \in {FileText(f.node), Placeholder}
            /\ isFileLoading' = FALSE
            /\ appVars' = appVars
            /\ <<rootFiles, isTreeLoading, isOpen, children, isLoading,
                 selectedFile>>'
                 = <<rootFiles, isTreeLoading, isOpen, children, isLoading,
                     selectedFile>>]_vars

\* a listing is ordered: directories before files, each group ascending by
\* name
Ordered(s) ==
  \A i, j \in 1..Len(s) :
    i < j => \/ NodeType[s[i]] = "dir" /\ NodeType[s[j]] = "file"
             \/ NodeType[s[i]] = NodeType[s[j]] /\ NameRank[s[i]] < NameRank[s[j]]

\* C25: the children cached on a tree node, and the root listing, are
\* ordered directories first, then files, each group ascending by name,
\* whatever the order the API returned; a step that ends no listing of a
\* node (expand, collapse, selection) leaves the cached children of the
\* instance as they are.
C25_ChildrenOrdered ==
  /\ [](Ordered(rootFiles) /\ \A n \in Dirs : Ordered(children[n]))
  /\ [][\A n \in Dirs :
          (/\ Mounted(n) /\ Mounted(n)'
           /\ \A r \in listingReqs :
                r.path = n => \E q \in listingReqs' : q.id = r.id)
            => children'[n] = children[n]]_vars

\* the directory src is open on the three children it cached, the directory
\* first, then the two files by name, and its directory has been expanded
\* since
C25_Witness ==
  /\ isOpen["src"]
  /\ children["src"] = <<"src/lib", "src/a.md", "src/b.md">>
  /\ instIssued["src"] = 1
  /\ isOpen["src/lib"]
  /\ children["src/lib"] = <<"src/lib/c">>
  /\ rootFiles = <<"src", "z.md">>

\* C26: a scroll evaluation in document mode that is not at the bottom
\* sets the active header to the id of the last heading anchor whose top
\* is below 150, and keeps the active header when no anchor has crossed.
C26_LastCrossedAnchor ==
  [][(ScrollEvaluation /\ scrollGap' >= 50)
       => LET crossed == {i \in 1..Len(headingAnchors) : headingTops'[i] < 150}
          IN  activeHeader' = IF crossed = {} THEN activeHeader
                              ELSE headingAnchors[Max(crossed)]]_vars

\* C27: while a file is selected no step, a scroll event included, changes
\* the active header; the step that returns to document mode performs one
\* scroll-spy evaluation on the geometry the page then has.
C27_SpyOnlyInDocumentMode ==
  [][/\ (selectedFile # NoFile /\ selectedFile' # NoFile)
          => activeHeader' = activeHeader
     /\ (selectedFile # NoFile /\ selectedFile' = NoFile)
          => activeHeader' = ScrollSpy(activeHeader, tableOfContents,
                                       headingAnchors, scrollGap', headingTops')]_vars

\* a file is displayed and the content area was scrolled to its bottom
\* since: the active header is not the last entry, which every evaluation
\* at the bottom selects, and no entry was ever clicked
C27_Witness ==
  /\ selectedFile # NoFile
  /\ ~lastClick.clicked
  /\ Len(tableOfContents) > 0
  /\ scrollGap < 50
  /\ activeHeader # tableOfContents[Len(tableOfContents)].id

\* C28: a change of the theme leaves the status, the artifact and the
\* effect runs of every diagram as they are, so it starts no compile; a run
\* has not read the theme before its compile starts.
C28_ThemeIsNoTrigger ==
  /\ [](\A d \in Diagrams : \A i \in 1..Len(effects[d]) :
          effects[d][i].pc = "timer" => ~effects[d][i].isDark)
  /\ [][theme' # theme
          => <<mounted, content, status, svg, effects>>'
               = <<mounted, content, status, svg, effects>>]_vars

\* the theme is dark; one diagram shows the artifact it compiled under the
\* light theme, the other one compiled under the dark theme
C28_Witness ==
  /\ theme = "dark"
  /\ \E d, x \in Diagrams :
       /\ mounted[d] /\ status[d] = "success"
       /\ Current(d).outcome = "ok" /\ ~Current(d).isDark
       /\ mounted[x] /\ status[x] = "success"
       /\ Current(x).outcome = "ok" /\ Current(x).isDark

\* C29: for a raw text whose trimmed form starts with a fence tagged markdown
\* and ends with a closing fence, the repaired content is the inner body
\* (taken through the later rules), also with whitespace or a final newline
\* around the wrapper.
C29_MarkdownWrapperRemoved ==
  LET t == trim(rawText)
      body == trim(SubSeq(t, Len(FenceMarkdown) + 1, Len(t) - Len(Fence)))
  IN  (/\ docPc # "raw"
       /\ startsWith(t, FenceMarkdown)
       /\ endsWith(t, Fence)
       /\ Len(t) >= Len(FenceMarkdown) + Len(Fence))
        => analysisContent
             = RemoveWordLines(ForceMermaidTag(RemoveGenericWrapper(body)), TRUE)

\* C30: the repaired content has no line that consists only of the word
\* mermaid, wherever such lines were in the raw text.
C30_NoMermaidWordLine ==
  docPc # "raw" =>
    \A i \in 1..Len(split(analysisContent)) :
      split(analysisContent)[i] # MermaidWord

\* C31: a code element that does not render inline renders as a diagram
\* exactly when its declared language is mermaid, or it declares no language
\* and its content is diagram-shaped; otherwise it renders as a code block
\* that carries the declared language, or the language text when none is
\* declared.
C31_DiagramOrCodeOfDeclaredLanguage ==
  (rendered # NotRendered /\ rendered.kind # "inline") =>
    LET declared == IF codeBlock.className = Undefined THEN <<>>
                    ELSE Drop(codeBlock.className, Len(LanguagePrefix))
    IN  IF \/ declared = MermaidWord
           \/ declared = <<>> /\ DiagramShaped(codeBlock)
        THEN rendered.kind = "diagram"
        ELSE /\ rendered.kind = "code"
             /\ rendered.lang = IF declared = <<>> THEN <<"t", "e", "x", "t">>
                                ELSE declared

C33_SlugWellFormed ==
  docPc = "rendered" =>
    LET lines == split(analysisContent)
        hs == OutsideHeadings(lines)
        wellFormed(s) ==
          /\ \A k \in 1..Len(s) :
               s[k] \in Range(LowerCase) \cup Range(DigitChars)
                          \cup {"_", "-"} \cup Cjk
          /\ \A k \in 1..(Len(s) - 1) : ~(s[k] = "-" /\ s[k + 1] = "-")
          /\ s # <<>> => (s[1] # "-" /\ s[Len(s)] # "-")
        kept(i) == SelectSeq(HeadingText(lines[i]), LAMBDA c : c # "!")
    IN  /\ Len(headingAnchors) = Cardinality(hs)
        /\ \A k \in 1..Len(headingAnchors) : wellFormed(headingAnchors[k])
        /\ tableOfContents # <<>> => tableOfContents[1].id = headingAnchors[1]
        /\ \A k, m \in 1..Len(headingAnchors) :
             kept(Nth(hs, k)) = kept(Nth(hs, m))
               => headingAnchors[k] = headingAnchors[m]

\* the heading 'A -!' and the heading 'A -' both have the slug a
C33_Witness ==
  /\ docPc = "rendered"
  /\ split(analysisContent) = <<<<"#", " ", "A", " ", "-", "!">>,
                                <<"#", " ", "A", " ", "-">>>>
  /\ headingAnchors = <<<<"a">>, <<"a">>>>

\* C34: whenever a file is selected and the viewer shows no loading
\* indicator, the content it shows is what was fetched for the selected
\* file (its text, the placeholder of a failed fetch, or the notice of a
\* file without download URL), and the indicator is on while a fetch for
\* the selected file is pending.
C34_ViewerShowsSelectedFile ==
  selectedFile # NoFile =>
    /\ ~isFileLoading =>
         fileContent \in (IF HasDownloadUrl[selectedFile]
                          THEN {FileText(selectedFile), Placeholder}
                          ELSE {ApiLimitText})
    /\ (\E r \in fileReqs : r.node = selectedFile) => isFileLoading

\* C35: while a call of handleRepoSelect is suspended at its await the
\* status is ANALYZING, whatever else completes; and a step that takes the
\* status away from COMPLETE is Back.
C35_AnalyzingUntilSettled ==
  /\ [](PendingAttempts # {} => loadingStatus = "analyzing")
  /\ [][(loadingStatus = "complete" /\ loadingStatus' # "complete")
          => /\ loadingStatus' = "idle"
             /\ selectedRepo' = NoRepo
             /\ analysis' = NoAnalysis]_vars

\* C36: whenever the analysis view is displayed, the analysis it shows was
\* generated for the selected repository.
C36_AnalysisOfSelectedRepo ==
  View = "analysis" => analysis.repoName = selectedRepo

\* C37: once no trending fetch is pending, the trending list is what the
\* fetch for the period chosen last returned: its list, or the empty list
\* of a failed request.
C37_TrendingOfLatestFilter ==
  trendingReqs = {} => trendingRepos \in {TrendingOf(period), <<>>}

\* C39: the Back step of the error view gives the initial idle state: no
\* repository selected, no analysis, status IDLE, and no error message for
\* the home view to display.
C39_BackFromErrorIsClean ==
  [][(View = "error" /\ selectedRepo' = NoRepo)
       => /\ View' = "home"
          /\ loadingStatus' = "idle"
          /\ analysis' = NoAnalysis
          /\ searchError' = ""]_vars

\* C38: the repair leaves every closing fence line as it is: where the
\* repaired content has the lines of the answer, a fence line with an odd
\* number of fence lines before it is the same line in both, also when the
\* line after it begins with a diagram keyword.
C38_ClosingFencesUntouched ==
  docPc # "raw" =>
    LET before == split(rawText)
        after == split(analysisContent)
        closing == {i \in 1..Len(before) :
                      /\ IsFenceLine(before[i])
                      /\ Cardinality({j \in 1..(i - 1) :
                                        IsFenceLine(before[j])}) % 2 = 1}
    IN  Len(after) = Len(before) => \A i \in closing : after[i] = before[i]

====
